---- MODULE Spec2Model ----
(***************************************************************************)
(* DataHawk: multi-source acquisition, merge/clean, validation, forecast   *)
(* invocation and signal decision, as implemented by the archived          *)
(* snapshots under src/archive.                                            *)
(*                                                                         *)
(* The specifications share the variables:                                 *)
(*   SpecAgg     DataHawk.collect_all / _merge_and_clean / BinanceSource   *)
(*   SpecCancel  collect_all, cancelled while it awaits the fetches        *)
(*   SpecLive    collect_all with sources that may never answer (fair)     *)
(*   SpecPipe    collect_all followed by DataHawkCore.process_cycle        *)
(*   SpecHealth  DataHawkMonitor.check_health                              *)
(*   SpecDecide  StrategyInterface.get_signal / get_trading_signal         *)
(*   SpecSync    DataHawk.fetch_json / sync_data_hawk                      *)
(*   Spec        the cycle entry points                                    *)
(***************************************************************************)
EXTENDS Integers, Sequences, FiniteSets, TLC

\* ---------------------------------------------------------------- bounds
NSources == 2
MaxRows == 2
MaxTs == 2

\* pandas' missing value (NaN); every real value of the model is >= 0
NaN == -1

\* a value that only the payload of a failed request carries
Poison == 99

Vals == {NaN, 10, 11}

VARIABLES
    sources,    \* DataHawk.sources: the kind of each source
    schema,     \* "index": frames indexed by timestamp; "column": a 'timestamp' column
    aggPc,      \* collect_all: "idle" | "gathering" | "returned"
    tasks,      \* collect_all's tasks: the source each issued fetch belongs to
    net,        \* what each source's request did (environment)
    results,    \* asyncio.gather's result slots, in task order
    combined,   \* _merge_and_clean: the frame after sort_index / set_index
    filled,     \* _merge_and_clean: the frame after fillna(method='ffill')
    merged,     \* collect_all's return value
    aggRaised   \* collect_all raised

VARIABLES
    data,       \* the market data frame at hand
    health,     \* the last DataHawkMonitor.check_health call and what it returned
    strategy,   \* StrategyInterface: buy_threshold, sell_threshold
    sig,        \* the last signal decision and what it returned
    coreFitted, \* DataHawkCore.predictor.model has been fitted
    lastForecast, \* hawk_instance.last_forecast
    cyc,        \* the last cycle entry point call and how it ended
    sync        \* the last sync_data_hawk call and what it returned

aggVars == <<sources, schema, aggPc, tasks, net, results, combined, filled, merged, aggRaised>>

vars == <<sources, schema, aggPc, tasks, net, results, combined, filled, merged, aggRaised,
          data, health, strategy, sig, coreFitted, lastForecast, cyc, sync>>

decVars == <<strategy, sig>>

cycVars == <<coreFitted, lastForecast, cyc>>

\* ------------------------------------------------------------ aggregator
SeqsUpTo(S, n) == UNION {[1..k -> S] : k \in 0..n}

Ascending(s) == \A i \in 1..(Len(s) - 1) : s[i].ts < s[i + 1].ts

\* what one source can deliver: up to MaxRows points, ascending timestamps
Payloads == {s \in SeqsUpTo([ts : 1..MaxTs, val : Vals], MaxRows) : Ascending(s)}

PoisonPayload == <<[ts |-> 1, val |-> Poison]>>

\* outcomes of one request
NetOutcomes ==
    [kind : {"raise", "timeout", "badstatus", "malformed"}, rows : {PoisonPayload}]
        \cup [kind : {"ok"}, rows : Payloads]

Pending == [kind |-> "pending", rows |-> <<>>]
ExcEntry == [kind |-> "exc", rows |-> <<>>]
ObjEntry == [kind |-> "obj", rows |-> <<>>]
FrameEntry(rows) == [kind |-> "frame", rows |-> rows]

\* BinanceSource._parse: the timestamp becomes the index
Parse(raw) == [i \in 1..Len(raw) |-> [idx |-> raw[i].ts, ts |-> raw[i].ts, val |-> raw[i].val]]

\* a frame that keeps a RangeIndex and a 'timestamp' column
ColumnFrame(raw) == [i \in 1..Len(raw) |-> [idx |-> i - 1, ts |-> raw[i].ts, val |-> raw[i].val]]

BinanceFetchLeaky(o) == FrameEntry(Parse(o.rows))

\* BinanceSource.fetch: every failure is an empty DataFrame
BinanceFetch(o) ==
    IF o.kind = "ok" THEN FrameEntry(Parse(o.rows)) ELSE FrameEntry(<<>>)

\* any other DataSource.fetch: it may raise or return something else
GenericFetch(o, sch) ==
    CASE o.kind \in {"raise", "timeout"} -> ExcEntry
      [] o.kind = "malformed" -> ObjEntry
      [] o.kind = "badstatus" -> FrameEntry(<<>>)
      [] OTHER -> FrameEntry(IF sch = "column" THEN ColumnFrame(o.rows) ELSE Parse(o.rows))

SourceFetch(kind, o, sch) ==
    IF kind = "binance" THEN BinanceFetch(o) ELSE GenericFetch(o, sch)

\* tasks = [source.fetch() for source in self.sources]
IssueFetches(srcs) == [k \in 1..Len(srcs) |-> k]

\* asyncio.gather(*tasks, return_exceptions=True)
Gather(res) == [raised |-> FALSE, results |-> res]

\* valid_frames: the non-empty DataFrames among the results
ValidFrames(res) == SelectSeq(res, LAMBDA e : e.kind = "frame" /\ e.rows # <<>>)

RECURSIVE Concat(_)
Concat(frames) ==
    IF frames = <<>> THEN <<>> ELSE Head(frames).rows \o Concat(Tail(frames))

\* drop_duplicates compares the columns, never the index
DupKey(r, tsCol) == IF tsCol THEN <<r.ts, r.val>> ELSE <<r.val>>

RECURSIVE KeepFirst(_, _, _)
KeepFirst(s, seen, tsCol) ==
    IF s = <<>> THEN <<>>
    ELSE LET k == DupKey(Head(s), tsCol)
         IN  IF k \in seen THEN KeepFirst(Tail(s), seen, tsCol)
             ELSE <<Head(s)>> \o KeepFirst(Tail(s), seen \cup {k}, tsCol)

DropDuplicates(s, tsCol) == KeepFirst(s, {}, tsCol)

RECURSIVE InsertByIdx(_, _)
InsertByIdx(r, s) ==
    IF s = <<>> THEN <<r>>
    ELSE IF Head(s).idx <= r.idx THEN <<Head(s)>> \o InsertByIdx(r, Tail(s))
    ELSE <<r>> \o s

\* sort_index: ascending by index, equal labels keep their order
RECURSIVE SortIndex(_)
SortIndex(s) ==
    IF s = <<>> THEN <<>>
    ELSE InsertByIdx(s[Len(s)], SortIndex(SubSeq(s, 1, Len(s) - 1)))

\* set_index('timestamp')
SetIndex(s) == [i \in 1..Len(s) |-> [s[i] EXCEPT !.idx = s[i].ts]]

MergeSorted(frames, sch) ==
    LET sorted == SortIndex(DropDuplicates(Concat(frames), sch = "column"))
    IN  IF sch = "column" THEN SetIndex(sorted) ELSE sorted

RECURSIVE FFillFrom(_, _)
FFillFrom(s, last) ==
    IF s = <<>> THEN <<>>
    ELSE LET v == IF Head(s).val = NaN THEN last ELSE Head(s).val
         IN  <<[Head(s) EXCEPT !.val = v]>> \o FFillFrom(Tail(s), v)

\* fillna(method='ffill'): no limit
FFill(s) == FFillFrom(s, NaN)

DropNa(s) == SelectSeq(s, LAMBDA r : r.val # NaN)

MergeAndClean(frames, sch) == DropNa(FFill(MergeSorted(frames, sch)))

NoSources == [i \in 1..NSources |-> "generic"]

AggInit ==
    /\ schema = "index"
    /\ sources = NoSources
    /\ aggPc = "new"
    /\ tasks = <<>>
    /\ net = [i \in 1..NSources |-> Pending]
    /\ results = [i \in 1..NSources |-> Pending]
    /\ combined = <<>>
    /\ filled = <<>>
    /\ merged = <<>>
    /\ aggRaised = FALSE

\* DataHawk(sources): the sources are all BinanceSource (frames indexed by
\* timestamp) or all of another kind, whose frames share one schema
NewHawk ==
    /\ aggPc \in {"new", "idle", "returned"}
    /\ \E sch \in {"index", "column"}, kind \in {"binance", "generic"} :
        /\ sch = "column" => kind = "generic"
        /\ schema' = sch
        /\ sources' = [i \in 1..NSources |-> kind]
    /\ aggPc' = "idle"
    /\ tasks' = <<>>
    /\ net' = [i \in 1..NSources |-> Pending]
    /\ results' = [i \in 1..NSources |-> Pending]
    /\ combined' = <<>>
    /\ filled' = <<>>
    /\ merged' = <<>>
    /\ aggRaised' = FALSE
    /\ UNCHANGED <<sync, data, health, decVars, cycVars>>

\* tasks = [source.fetch() for source in self.sources]; await gather(...)
CollectStart ==
    /\ aggPc \in {"idle", "returned"}
    /\ aggPc' = "gathering"
    /\ tasks' = IssueFetches(sources)
    /\ net' = [i \in 1..NSources |-> Pending]
    /\ results' = [i \in 1..NSources |-> Pending]
    /\ combined' = <<>>
    /\ filled' = <<>>
    /\ merged' = <<>>
    /\ aggRaised' = FALSE
    /\ UNCHANGED <<sync, sources, schema, data, health, decVars, cycVars>>

\* one fetch completes, in any order
FetchDone(i) ==
    /\ aggPc = "gathering"
    /\ results[i] = Pending
    /\ \E o \in NetOutcomes :
        /\ net' = [net EXCEPT ![i] = o]
        /\ results' = [results EXCEPT ![i] = SourceFetch(sources[i], o, schema)]
    /\ UNCHANGED <<sync, sources, schema, aggPc, tasks, combined, filled, merged, aggRaised,
                   data, health, decVars, cycVars>>

\* a collect_all that does not wait for every task: it filters and merges what
\* has come in so far
CollectFinishEarly ==
    /\ aggPc = "gathering"
    /\ LET g == Gather(results)
           valid == ValidFrames(g.results)
       IN  /\ aggRaised' = g.raised
           /\ IF g.raised \/ valid = <<>>
              THEN combined' = <<>> /\ filled' = <<>> /\ merged' = <<>>
              ELSE /\ combined' = MergeSorted(valid, schema)
                   /\ filled' = FFill(MergeSorted(valid, schema))
                   /\ merged' = MergeAndClean(valid, schema)
    /\ aggPc' = "returned"
    /\ UNCHANGED <<sync, sources, schema, tasks, net, results, data, health, decVars, cycVars>>

\* gather returns once every task is done; filter, merge, clean, return
CollectFinish ==
    /\ aggPc = "gathering"
    /\ \A i \in 1..NSources : results[i] # Pending
    /\ LET g == Gather(results)
           valid == ValidFrames(g.results)
       IN  /\ aggRaised' = g.raised
           /\ IF g.raised \/ valid = <<>>
              THEN combined' = <<>> /\ filled' = <<>> /\ merged' = <<>>
              ELSE /\ combined' = MergeSorted(valid, schema)
                   /\ filled' = FFill(MergeSorted(valid, schema))
                   /\ merged' = MergeAndClean(valid, schema)
    /\ aggPc' = "returned"
    /\ UNCHANGED <<sync, sources, schema, tasks, net, results, data, health, decVars, cycVars>>

NextAgg ==
    \/ NewHawk
    \/ CollectStart
    \/ \E i \in 1..NSources : FetchDone(i)
    \/ CollectFinish

\* ------------------------------------------------------------ cancellation
CancelledEntry == [kind |-> "cancelled", rows |-> <<>>]

\* a collect_all that caught the cancellation and merged what had completed
OnCancelMergePartial(res, sch) ==
    [results |-> [i \in 1..NSources |-> IF res[i] = Pending THEN CancelledEntry ELSE res[i]],
     raised |-> FALSE,
     merged |-> MergeAndClean(ValidFrames(res), sch)]

\* the task awaiting gather is cancelled: gather cancels every child that is
\* not done and CancelledError is raised at the await; collect_all has no
\* handler, so the lines after the await never run
OnCancel(res, sch) ==
    [results |-> [i \in 1..NSources |-> IF res[i] = Pending THEN CancelledEntry ELSE res[i]],
     raised |-> TRUE,
     merged |-> <<>>]

CancelCollect ==
    /\ aggPc = "gathering"
    /\ \E i \in 1..NSources : results[i] = Pending
    /\ LET c == OnCancel(results, schema)
       IN  /\ results' = c.results
           /\ aggRaised' = c.raised
           /\ merged' = c.merged
    /\ aggPc' = "cancelled"
    /\ UNCHANGED <<sync, sources, schema, tasks, net, combined, filled, data, health, decVars,
                   cycVars>>

NextCancel == NextAgg \/ CancelCollect

\* ----------------------------------------------------------------- liveness
\* the peer of a request that never answers
Silent == [kind |-> "silent", rows |-> <<>>]

\* A source's peer stops answering. BinanceSource.fetch passes timeout=10 to
\* session.get, so its request still ends (FetchDone with kind "timeout");
\* DataSource.fetch promises no timeout and collect_all wraps none around the
\* task, so such a fetch stays pending
NeverResponds(i) ==
    /\ aggPc = "gathering"
    /\ results[i] = Pending
    /\ net[i] = Pending
    /\ sources[i] = "generic"
    /\ net' = [net EXCEPT ![i] = Silent]
    /\ UNCHANGED <<sync, sources, schema, aggPc, tasks, results, combined, filled, merged, aggRaised,
                   data, health, decVars, cycVars>>

\* a fetch whose request is still answered, or timed out, completes
FetchCompletes(i) == net[i] = Pending /\ FetchDone(i)

NextLive ==
    \/ NewHawk
    \/ CollectStart
    \/ \E i \in 1..NSources : NeverResponds(i)
    \/ \E i \in 1..NSources : FetchCompletes(i)
    \/ CollectFinish

\* the event loop runs every task that can make progress
Fairness ==
    /\ \A i \in 1..NSources : WF_vars(FetchCompletes(i))
    /\ WF_vars(CollectFinish)

\* -------------------------------------------------------------- data frames
\* A pandas DataFrame handed to the validator / forecaster:
\*   rows     the points; ts is the time of the point, price its value (or NaN)
\*   tsCol    there is a 'timestamp' column
\*   dtIndex  the index is a DatetimeIndex (otherwise a RangeIndex)
\*   idxLag   how far the index label of a row is past its 'timestamp' value
\*   valCol   the name of the value column, "none" when there is none
\* Column order: timestamp first, then the value column.
MaxHist == 2

HistPrices == {NaN, 100}

RowSeqs == UNION {[1..k -> HistPrices] : k \in 0..MaxHist}

MkRows(ps) == [i \in 1..Len(ps) |-> [ts |-> i, price |-> ps[i]]]

Frames ==
    {df \in [rows : {MkRows(ps) : ps \in RowSeqs}, tsCol : BOOLEAN, dtIndex : BOOLEAN,
              idxLag : {0, 1}, valCol : {"price", "close", "other", "none"}] :
        df.idxLag = 1 => (df.tsCol /\ df.dtIndex)}

NCols(df) == (IF df.tsCol THEN 1 ELSE 0) + (IF df.valCol # "none" THEN 1 ELSE 0)

\* DataFrame.empty: an axis of length 0
IsEmpty(df) == df.rows = <<>> \/ NCols(df) = 0

\* df.isnull().values.any()
HasNans(df) == df.valCol # "none" /\ \E i \in 1..Len(df.rows) : df.rows[i].price = NaN

\* ---------------------------------------------------------------- validator
StaleThreshold == 300
DaySeconds == 86400

\* now - last_timestamp, in seconds
Ages == {0, 299, 300, 301, 86399, 86400, 86401, 86700, 86701, 172800, 173101}

\* Timedelta.seconds: the seconds component, 0 <= seconds < 86400
SecondsComponent(age) == age % DaySeconds

\* DataHawkMonitor.check_health; the three entries are evaluated eagerly, and
\* Timestamp - integer index label raises TypeError
CheckHealth(df, age) ==
    IF ~IsEmpty(df) /\ ~df.dtIndex
    THEN [raised |-> TRUE, is_empty |-> FALSE, has_nans |-> FALSE, staleness |-> FALSE]
    ELSE [raised |-> FALSE,
          is_empty |-> IsEmpty(df),
          has_nans |-> HasNans(df),
          staleness |-> IF ~IsEmpty(df) THEN SecondsComponent(age) > StaleThreshold
                        ELSE TRUE]

NoFrame == [rows |-> <<>>, tsCol |-> FALSE, dtIndex |-> FALSE, idxLag |-> 0, valCol |-> "none"]

NoHealth == [called |-> FALSE, age |-> 0, out |-> CheckHealth(NoFrame, 0)]

HealthInit == data = NoFrame /\ health = NoHealth

CheckHealthCall ==
    /\ \E age \in Ages :
        health' = [called |-> TRUE, age |-> age, out |-> CheckHealth(data, age)]
    /\ UNCHANGED <<sync, aggVars, data, decVars, cycVars>>

\* ------------------------------------------------------------ signal engine
\* Prices are whole units, which round(x, 8) leaves as they are; thresholds are
\* in thousandths (0.015 is 15).
DefaultThreshold == 15

Thresholds == {0, DefaultThreshold, 30}

CurPrices == {0, 100, 200, 300}

Preds == {0, 97, 101, 103, 203}

MaxFc == 2

\* half the width of the model's confidence interval around yhat
IntervalHalf == 2

\* forecasts handed to the decision: rows of (ds, yhat, yhat_lower, yhat_upper)
MkForecast(ys) ==
    [i \in 1..Len(ys) |->
        [ds |-> i, yhat |-> ys[i], yhat_lower |-> ys[i] - IntervalHalf,
         yhat_upper |-> ys[i] + IntervalHalf]]

DecForecasts == {MkForecast(ys) : ys \in SeqsUpTo(Preds, MaxFc)}

\* round(x, 0) of the rational n/d, d > 0: ties go to the even neighbour
RoundHalfEven(n, d) ==
    LET q == n \div d
        r == n - q * d
    IN  IF 2 * r < d THEN q
        ELSE IF 2 * r > d THEN q + 1
        ELSE IF q % 2 = 0 THEN q ELSE q + 1

\* (predicted - current) / current compared with a threshold, current # 0
Above(pred, cur, thr) == (pred - cur) * 1000 > thr * cur
Below(pred, cur, thr) == (pred - cur) * 1000 < (0 - thr) * cur

\* the quotient when current_price = 0 and an operand is a numpy scalar
ZeroDiv(pred) == IF pred > 0 THEN "inf" ELSE IF pred < 0 THEN "-inf" ELSE "nan"

ActionOfSwapped(pred, cur, buy, sell) ==
    IF cur = NaN THEN "HOLD"
    ELSE IF cur = 0
    THEN (CASE ZeroDiv(pred) = "inf" -> "BUY" [] ZeroDiv(pred) = "-inf" -> "SELL"
            [] OTHER -> "HOLD")
    ELSE IF Above(pred, cur, sell) THEN "BUY"
    ELSE IF Below(pred, cur, buy) THEN "SELL"
    ELSE "HOLD"

\* the if / elif / else of get_signal and get_trading_signal; a comparison
\* with nan is false
ActionOf(pred, cur, buy, sell) ==
    IF cur = NaN THEN "HOLD"
    ELSE IF cur = 0
    THEN (CASE ZeroDiv(pred) = "inf" -> "BUY" [] ZeroDiv(pred) = "-inf" -> "SELL"
            [] OTHER -> "HOLD")
    ELSE IF Above(pred, cur, buy) THEN "BUY"
    ELSE IF Below(pred, cur, sell) THEN "SELL"
    ELSE "HOLD"

\* round(price_change * 100, 2), in hundredths of a percent
ChangePct(pred, cur) ==
    IF cur = NaN THEN [kind |-> "nan", v |-> 0]
    ELSE IF cur = 0 THEN [kind |-> ZeroDiv(pred), v |-> 0]
    ELSE [kind |-> "num", v |-> RoundHalfEven((pred - cur) * 10000, cur)]

NoSignal ==
    [kind |-> "none", action |-> "", confidence |-> 0, current_price |-> 0,
     predicted_price |-> 0, expected_change_pct |-> [kind |-> "num", v |-> 0],
     range |-> [lower |-> 0, upper |-> 0]]

\* get_signal without its forecast.empty test: iloc[-1] raises IndexError
GetSignalNoEmptyTest(cur, forecast, buy, sell, numpy) ==
    IF forecast = <<>>
    THEN [NoSignal EXCEPT !.kind = "exc"]
    ELSE LET pred == forecast[Len(forecast)].yhat
         IN  IF cur = 0 /\ ~numpy
             THEN [NoSignal EXCEPT !.kind = "exc"]
             ELSE [kind |-> "signal",
                   action |-> ActionOf(pred, cur, buy, sell),
                   confidence |-> 0,
                   current_price |-> cur,
                   predicted_price |-> pred,
                   expected_change_pct |-> ChangePct(pred, cur),
                   range |-> [lower |-> forecast[Len(forecast)].yhat_lower,
                              upper |-> forecast[Len(forecast)].yhat_upper]]

\* StrategyInterface.get_signal; numpy: an operand of the division is a numpy
\* scalar, so that dividing by zero gives inf/nan instead of ZeroDivisionError
GetSignal(cur, forecast, buy, sell, numpy) ==
    IF forecast = <<>>
    THEN [NoSignal EXCEPT !.kind = "hold0", !.action = "HOLD"]
    ELSE LET pred == forecast[Len(forecast)].yhat
         IN  IF cur = 0 /\ ~numpy
             THEN [NoSignal EXCEPT !.kind = "exc"]
             ELSE [kind |-> "signal",
                   action |-> ActionOf(pred, cur, buy, sell),
                   confidence |-> 0,
                   current_price |-> cur,
                   predicted_price |-> pred,
                   expected_change_pct |-> ChangePct(pred, cur),
                   range |-> [lower |-> forecast[Len(forecast)].yhat_lower,
                              upper |-> forecast[Len(forecast)].yhat_upper]]

\* DataHawkOptimizer.get_trading_signal: one threshold for both directions
GetTradingSignal(cur, pred, threshold, numpy) ==
    IF cur = 0 /\ ~numpy
    THEN [NoSignal EXCEPT !.kind = "exc"]
    ELSE [NoSignal EXCEPT !.kind = "text", !.action = ActionOf(pred, cur, threshold, threshold)]

NoSig ==
    [op |-> "none", cur |-> 0, forecast |-> <<>>, buy |-> 0, sell |-> 0,
     numpy |-> FALSE, out |-> NoSignal]

SigInit ==
    /\ strategy = [buy_threshold |-> DefaultThreshold, sell_threshold |-> DefaultThreshold]
    /\ sig = NoSig

\* StrategyInterface(buy_threshold, sell_threshold)
NewStrategy ==
    /\ \E buy \in Thresholds, sell \in Thresholds :
        strategy' = [buy_threshold |-> buy, sell_threshold |-> sell]
    /\ sig' = NoSig
    /\ UNCHANGED <<sync, aggVars, data, health, cycVars>>

GetSignalCall ==
    /\ \E cur \in CurPrices, fc \in DecForecasts, np \in BOOLEAN :
        sig' = [op |-> "get_signal", cur |-> cur, forecast |-> fc,
                buy |-> strategy.buy_threshold, sell |-> strategy.sell_threshold,
                numpy |-> np,
                out |-> GetSignal(cur, fc, strategy.buy_threshold,
                                  strategy.sell_threshold, np)]
    /\ UNCHANGED <<sync, aggVars, data, health, cycVars, strategy>>

GetTradingSignalCall ==
    /\ \E cur \in CurPrices, pred \in Preds, thr \in Thresholds, np \in BOOLEAN :
        sig' = [op |-> "get_trading_signal", cur |-> cur,
                forecast |-> MkForecast(<<pred>>), buy |-> thr, sell |-> thr,
                numpy |-> np, out |-> GetTradingSignal(cur, pred, thr, np)]
    /\ UNCHANGED <<sync, aggVars, data, health, cycVars, strategy>>

\* --------------------------------------------------------------- forecaster
DefaultPeriods == 30
HawkForecastDays == 7

CyclePreds == {97, 103}

\* what the external model does when asked to fit: it fails before or after
\* it has recorded its history, or it works and predicts pred
ModelOutcomes ==
    [kind : {"fail_early", "fail_late"}, pred : {0}] \cup [kind : {"ok"}, pred : CyclePreds]

\* the label of row i of the frame's index
IndexLabel(df, i) == IF df.dtIndex THEN df.rows[i].ts + df.idxLag ELSE i - 1

\* a column assigned from a Series is aligned on the index: it is all NaN
\* when the new frame got a RangeIndex and the Series has a DatetimeIndex
Aligned(df, i, misaligned) == IF misaligned THEN NaN ELSE df.rows[i].price

PrepFailed == [raised |-> TRUE, rows |-> <<>>]

DropNaRows(rows) == SelectSeq(rows, LAMBDA r : r.ds # NaN /\ r.y # NaN)

\* 215224 DataHawkPredictor._prepare_dataframe
PrepareCore(df) ==
    IF df.valCol # "price" THEN PrepFailed
    ELSE [raised |-> FALSE,
          rows |-> [i \in 1..Len(df.rows) |->
                     [ds |-> IF df.dtIndex THEN IndexLabel(df, i)
                             ELSE IF df.tsCol THEN df.rows[i].ts ELSE IndexLabel(df, i),
                      y |-> Aligned(df, i, df.dtIndex)]]]

RECURSIVE InsertByDs(_, _)
InsertByDs(r, s) ==
    IF s = <<>> THEN <<r>>
    ELSE IF Head(s).ds <= r.ds THEN <<Head(s)>> \o InsertByDs(r, Tail(s))
    ELSE <<r>> \o s

\* sort_values('ds'): ascending, NaT last
RECURSIVE SortValuesDs(_)
SortValuesDs(s) ==
    IF s = <<>> THEN <<>>
    ELSE LET last == s[Len(s)]
             rest == SortValuesDs(SubSeq(s, 1, Len(s) - 1))
         IN  IF last.ds = NaN THEN rest \o <<last>> ELSE InsertByDs(last, rest)

\* 214840 DataHawkPredictor._prepare_dataframe
PrepareMonitor(df) ==
    IF df.valCol # "price" THEN PrepFailed
    ELSE [raised |-> FALSE,
          rows |-> DropNaRows(SortValuesDs([i \in 1..Len(df.rows) |->
                     [ds |-> IF df.tsCol THEN df.rows[i].ts ELSE IndexLabel(df, i),
                      y |-> Aligned(df, i, ~df.tsCol /\ df.dtIndex)]]))]

\* 215016 DataHawkPredictor._prepare_dataframe
PrepareHawk(df) ==
    IF IsEmpty(df) THEN PrepFailed
    ELSE IF df.valCol # "price" /\ NCols(df) < 2 THEN PrepFailed
    ELSE [raised |-> FALSE,
          rows |-> DropNaRows([i \in 1..Len(df.rows) |->
                     [ds |-> IF df.dtIndex THEN IndexLabel(df, i)
                             ELSE IF df.tsCol THEN df.rows[i].ts ELSE df.rows[i].price,
                      y |-> Aligned(df, i, df.dtIndex)]])]

\* 214203 PredictionEngine._format_data
FormatData(df) ==
    IF ~df.tsCol /\ ~df.dtIndex /\ NCols(df) = 0 THEN PrepFailed
    ELSE IF df.valCol = "none" THEN PrepFailed
    ELSE LET ds(i) == IF df.tsCol THEN df.rows[i].ts
                      ELSE IF ~df.dtIndex THEN df.rows[i].price
                      ELSE IndexLabel(df, i)
             y(i) == IF df.valCol \in {"price", "close"} \/ df.tsCol
                     THEN df.rows[i].price
                     ELSE ds(i)
         IN  [raised |-> FALSE,
              rows |-> DropNaRows([i \in 1..Len(df.rows) |-> [ds |-> ds(i), y |-> y(i)]])]

NonNull(train) == Cardinality({i \in 1..Len(train) : train[i].y # NaN})

\* Prophet.fit: a model object is fitted once, on at least 2 non-NaN rows
ProphetFit(fitted, train, o) ==
    IF fitted THEN [ok |-> FALSE, fitted |-> TRUE]
    ELSE IF NonNull(train) < 2 THEN [ok |-> FALSE, fitted |-> FALSE]
    ELSE CASE o.kind = "ok" -> [ok |-> TRUE, fitted |-> TRUE]
           [] o.kind = "fail_late" -> [ok |-> FALSE, fitted |-> TRUE]
           [] OTHER -> [ok |-> FALSE, fitted |-> FALSE]

RECURSIVE SortedSeq(_)
SortedSeq(S) ==
    IF S = {} THEN <<>>
    ELSE LET m == CHOOSE x \in S : \A y \in S : x <= y
         IN  <<m>> \o SortedSeq(S \ {m})

MaxOf(S) == CHOOSE x \in S : \A y \in S : y <= x

HistoryDates(train) == SortedSeq({train[i].ds : i \in 1..Len(train)})

\* the last historical timestamp (0 when there is no history)
HistLast(train) == IF train = <<>> THEN 0 ELSE MaxOf({train[i].ds : i \in 1..Len(train)})

\* Prophet.make_future_dataframe(periods): the history dates, then periods
\* dates after the last one
MakeFuture(train, periods) ==
    HistoryDates(train) \o [k \in 1..periods |-> HistLast(train) + k]

\* Prophet.predict(future): one row per date
Predict(future, o) ==
    [i \in 1..Len(future) |->
        [ds |-> future[i], yhat |-> o.pred, yhat_lower |-> o.pred - IntervalHalf,
         yhat_upper |-> o.pred + IntervalHalf]]

\* DataFrame.tail(n)
TailRows(s, n) == IF Len(s) <= n THEN s ELSE SubSeq(s, Len(s) - n + 1, Len(s))

\* try: prepare, fit, make_future_dataframe, predict; except Exception: empty
Forecaster(fitted, prep, periods, o, tailOnly) ==
    IF prep.raised
    THEN [fitCalled |-> FALSE, modelFailed |-> FALSE, exc |-> FALSE, fitted |-> fitted,
          fc |-> <<>>, histLast |-> 0]
    ELSE LET f == ProphetFit(fitted, prep.rows, o)
             full == Predict(MakeFuture(prep.rows, periods), o)
         IN  IF ~f.ok
             THEN [fitCalled |-> TRUE, modelFailed |-> TRUE, exc |-> FALSE,
                   fitted |-> f.fitted, fc |-> <<>>, histLast |-> HistLast(prep.rows)]
             ELSE [fitCalled |-> TRUE, modelFailed |-> FALSE, exc |-> FALSE,
                   fitted |-> TRUE,
                   fc |-> IF tailOnly THEN TailRows(full, periods) ELSE full,
                   histLast |-> HistLast(prep.rows)]

\* the same without the try/except: a failure of the model escapes
ForecasterNoCatch(fitted, prep, periods, o, tailOnly) ==
    LET r == Forecaster(fitted, prep, periods, o, tailOnly)
    IN  IF r.modelFailed THEN [r EXCEPT !.exc = TRUE] ELSE r

RunForecastNoCatch(fitted, df, o) ==
    ForecasterNoCatch(fitted, PrepareCore(df), DefaultPeriods, o, FALSE)

\* 215224 DataHawkPredictor.run_forecast
RunForecast(fitted, df, o) == Forecaster(fitted, PrepareCore(df), DefaultPeriods, o, FALSE)

\* 214203 PredictionEngine.generate_forecast
GenerateForecast(df, o) == Forecaster(FALSE, FormatData(df), DefaultPeriods, o, FALSE)

\* 214840 DataHawkPredictor.forecast
Forecast(df, o) == Forecaster(FALSE, PrepareMonitor(df), DefaultPeriods, o, FALSE)

\* 215016 DataHawkPredictor.run_inference
RunInference(df, days, o) == Forecaster(FALSE, PrepareHawk(df), days, o, TRUE)

\* ------------------------------------------------------------- orchestrator
\* DataHawkMonitor.is_data_valid
IsDataValid(df) ==
    /\ ~IsEmpty(df)
    /\ df.valCol = "price"
    /\ \A i \in 1..Len(df.rows) : df.rows[i].price # NaN

LastPrice(df) == df.rows[Len(df.rows)].price

NoOutcome == [kind |-> "fail_early", pred |-> 0]

Idle ==
    [op |-> "idle", outcome |-> NoOutcome, horizon |-> 0, fitCalled |-> FALSE,
     modelFailed |-> FALSE, fcExc |-> FALSE, decided |-> FALSE, fc |-> <<>>,
     histLast |-> 0, ret |-> "", out |-> NoSignal, raised |-> FALSE,
     stage |-> "Idle", reason |-> ""]

\* how a cycle ended: f is the forecaster's result (or Idle when it never ran)
Ended(op, o, f, horizon, stage, reason, ret) ==
    [Idle EXCEPT !.op = op, !.outcome = o, !.horizon = horizon,
                 !.fitCalled = f.fitCalled, !.modelFailed = f.modelFailed,
                 !.fcExc = f.exc, !.fc = f.fc, !.histLast = f.histLast,
                 !.stage = stage, !.reason = reason, !.ret = ret]

NotRun ==
    [fitCalled |-> FALSE, modelFailed |-> FALSE, exc |-> FALSE, fitted |-> FALSE,
     fc |-> <<>>, histLast |-> 0]

\* 215224 DataHawkCore.process_cycle
ProcessCycleOp(fitted, df, o) ==
    IF ~IsDataValid(df)
    THEN [fitted |-> fitted,
          cyc |-> Ended("process_cycle", o, NotRun, DefaultPeriods, "Failed",
                        "invalid-data", "None")]
    ELSE LET f == RunForecast(fitted, df, o)
         IN  IF f.exc
             THEN [fitted |-> f.fitted,
                   cyc |-> Ended("process_cycle", o, f, DefaultPeriods, "Failed",
                                 "exception", "None")]
             ELSE IF f.fc = <<>>
             THEN [fitted |-> f.fitted,
                   cyc |-> Ended("process_cycle", o, f, DefaultPeriods, "Failed",
                                 "forecast-unavailable", "None")]
             ELSE LET s == GetTradingSignal(LastPrice(df), f.fc[Len(f.fc)].yhat,
                                            DefaultThreshold, TRUE)
                      e == Ended("process_cycle", o, f, DefaultPeriods, "Done", "", "dict")
                  IN  [fitted |-> f.fitted,
                       cyc |-> IF s.kind = "exc"
                               THEN [e EXCEPT !.decided = TRUE, !.stage = "Failed",
                                              !.reason = "exception", !.ret = "None"]
                               ELSE [e EXCEPT !.decided = TRUE,
                                              !.out = [s EXCEPT
                                                  !.current_price = LastPrice(df),
                                                  !.predicted_price = f.fc[Len(f.fc)].yhat]]]

\* 214203 execute_trading_cycle
ExecuteTradingCycleOp(df, o) ==
    LET f == GenerateForecast(df, o)
        op == "execute_trading_cycle"
    IN  IF f.exc
        THEN [Ended(op, o, f, DefaultPeriods, "Failed", "exception", "") EXCEPT
                  !.raised = TRUE]
        ELSE IF f.fc = <<>>
        THEN Ended(op, o, f, DefaultPeriods, "Failed", "forecast-unavailable", "error")
        ELSE IF df.valCol # "price" /\ NCols(df) < 2
        THEN [Ended(op, o, f, DefaultPeriods, "Deciding", "", "") EXCEPT !.raised = TRUE]
        ELSE LET s == GetSignal(LastPrice(df), f.fc, DefaultThreshold, DefaultThreshold, TRUE)
             IN  [Ended(op, o, f, DefaultPeriods, "Done", "", "signal") EXCEPT
                      !.decided = TRUE, !.out = s, !.raised = (s.kind = "exc")]

\* 214840 integrate_datahawk
IntegrateDatahawkOp(df, age, o) ==
    LET h == CheckHealth(df, age)
        op == "integrate_datahawk"
    IN  IF h.raised
        THEN [Ended(op, o, NotRun, DefaultPeriods, "Validating", "", "") EXCEPT
                  !.raised = TRUE]
        ELSE IF h.is_empty
        THEN Ended(op, o, NotRun, DefaultPeriods, "Failed", "invalid-data", "None")
        ELSE LET f == Forecast(df, o)
             IN  IF f.fc = <<>>
                 THEN Ended(op, o, f, DefaultPeriods, "Failed", "forecast-unavailable", "None")
                 ELSE Ended(op, o, f, DefaultPeriods, "Done", "", "forecast")

\* integrate_prediction_to_hawk storing whatever run_inference returned
IntegratePredictionOpAlwaysStore(cache, df, o) ==
    LET f == RunInference(df, HawkForecastDays, o)
        op == "integrate_prediction_to_hawk"
    IN  IF f.fc # <<>>
        THEN [cache |-> f.fc, cyc |-> Ended(op, o, f, HawkForecastDays, "Done", "", "forecast")]
        ELSE [cache |-> f.fc,
              cyc |-> Ended(op, o, f, HawkForecastDays, "Failed", "forecast-unavailable",
                            "None")]

\* 215016 integrate_prediction_to_hawk
IntegratePredictionOp(cache, df, o) ==
    LET f == RunInference(df, HawkForecastDays, o)
        op == "integrate_prediction_to_hawk"
    IN  IF f.fc # <<>>
        THEN [cache |-> f.fc, cyc |-> Ended(op, o, f, HawkForecastDays, "Done", "", "forecast")]
        ELSE [cache |-> cache,
              cyc |-> Ended(op, o, f, HawkForecastDays, "Failed", "forecast-unavailable",
                            "None")]

CycInit == coreFitted = FALSE /\ lastForecast = <<>> /\ cyc = Idle

\* hawk = DataHawkCore()
NewCore ==
    /\ coreFitted' = FALSE
    /\ cyc' = Idle
    /\ UNCHANGED <<sync, aggVars, data, health, decVars, lastForecast>>

ProcessCycle ==
    /\ \E o \in ModelOutcomes :
        LET r == ProcessCycleOp(coreFitted, data, o)
        IN  coreFitted' = r.fitted /\ cyc' = r.cyc
    /\ UNCHANGED <<sync, aggVars, data, health, decVars, lastForecast>>

ExecuteTradingCycle ==
    /\ \E o \in ModelOutcomes : cyc' = ExecuteTradingCycleOp(data, o)
    /\ UNCHANGED <<sync, aggVars, data, health, decVars, coreFitted, lastForecast>>

IntegrateDatahawk ==
    /\ \E o \in ModelOutcomes, age \in {0, DaySeconds} : cyc' = IntegrateDatahawkOp(data, age, o)
    /\ UNCHANGED <<sync, aggVars, data, health, decVars, coreFitted, lastForecast>>

IntegratePredictionToHawk ==
    /\ \E o \in ModelOutcomes :
        LET r == IntegratePredictionOp(lastForecast, data, o)
        IN  lastForecast' = r.cache /\ cyc' = r.cyc
    /\ UNCHANGED <<sync, aggVars, data, health, decVars, coreFitted>>

\* ------------------------------------------------------------- fetch_json
\* 141941 DataHawk.fetch_json / sync_data_hawk
MaxJson == 2

\* JSON scalars, as text
JsonScalars == {"null", "true", "false", "0", "1", "\"s\""}

\* a JSON document: a scalar, an array of scalars, or an object whose keys
\* k1, k2, ... hold scalars
JsonBodies ==
    [t : {"scalar"}, items : {<<x>> : x \in JsonScalars}]
        \cup [t : {"array", "object"}, items : SeqsUpTo(JsonScalars, MaxJson)]

NoBody == [t |-> "none", items |-> <<>>]

\* the url argument
Urls == {"ticker/price", "klines"}

\* what requests.get / raise_for_status / response.json run into
HttpOutcomes ==
    [kind : {"http_error", "connection_error", "timeout", "bad_json", "other"},
     body : {NoBody}]
        \cup [kind : {"ok"}, body : JsonBodies]

\* Python's None; JSON null decodes to it
None == NoBody

EmptyDict == [t |-> "object", items |-> <<>>]

\* response.json(): the decoded document
ResponseJson(body) == IF body = [t |-> "scalar", items |-> <<"null">>] THEN None ELSE body

\* fetch_json: every exception is caught and logged; None on failure
FetchJson(o) ==
    IF o.kind = "ok"
    THEN [raised |-> FALSE, value |-> ResponseJson(o.body)]
    ELSE [raised |-> FALSE, value |-> None]

\* sync_data_hawk: data if data is not None else {}
SyncDataHawk(o) ==
    LET d == FetchJson(o)
    IN  [raised |-> d.raised, value |-> IF d.value # None THEN d.value ELSE EmptyDict]

NoSync == [called |-> FALSE, url |-> "", http |-> [kind |-> "other", body |-> NoBody],
           raised |-> FALSE, ret |-> EmptyDict]

SyncInit == sync = NoSync

SyncDataHawkCall ==
    /\ \E url \in Urls, o \in HttpOutcomes :
        LET r == SyncDataHawk(o)
        IN  sync' = [called |-> TRUE, url |-> url, http |-> o, raised |-> r.raised,
                     ret |-> r.value]
    /\ UNCHANGED <<aggVars, data, health, decVars, cycVars>>

NextSync == SyncDataHawkCall

\* ---------------------------------------------------------------- pipeline
\* One cycle end to end: collect_all, then process_cycle on what it returned.

\* The frame collect_all returns, as the validator and the forecaster see it:
\* pd.DataFrame() when nothing was merged; otherwise a DatetimeIndex (set by
\* _parse or by set_index('timestamp')), no 'timestamp' column, and the value
\* column: 'close' for BinanceSource frames, 'price' for the other sources
AsFrame(m, kinds) ==
    IF m = <<>> THEN NoFrame
    ELSE [rows |-> [i \in 1..Len(m) |-> [ts |-> m[i].ts, price |-> m[i].val]],
          tsCol |-> FALSE,
          dtIndex |-> TRUE,
          idxLag |-> 0,
          valCol |-> IF kinds[1] = "binance" THEN "close" ELSE "price"]

\* a cycle begins: Idle -> Fetching
CycleStart ==
    /\ aggPc \in {"idle", "returned"}
    /\ aggPc' = "gathering"
    /\ tasks' = IssueFetches(sources)
    /\ net' = [i \in 1..NSources |-> Pending]
    /\ results' = [i \in 1..NSources |-> Pending]
    /\ combined' = <<>>
    /\ filled' = <<>>
    /\ merged' = <<>>
    /\ aggRaised' = FALSE
    /\ data' = NoFrame
    /\ health' = NoHealth
    /\ cyc' = Idle
    /\ UNCHANGED <<sync, sources, schema, decVars, coreFitted, lastForecast>>

\* hawk = DataHawkCore(); hawk.process_cycle(market_data_df) on the snapshot
ProcessMerged ==
    /\ aggPc = "returned"
    /\ ~aggRaised
    /\ cyc = Idle
    /\ \E o \in ModelOutcomes :
        LET df == AsFrame(merged, sources)
        IN  /\ data' = df
            /\ cyc' = ProcessCycleOp(FALSE, df, o).cyc
    /\ UNCHANGED <<sync, aggVars, health, decVars, coreFitted, lastForecast>>

NextPipe ==
    \/ NewHawk
    \/ CycleStart
    \/ \E i \in 1..NSources : FetchDone(i)
    \/ CollectFinish
    \/ ProcessMerged

\* ----------------------------------------------------------- specifications
\* new market data arrives; whatever was derived from the old frame is gone
NewData ==
    /\ \E df \in Frames : data' = df
    /\ health' = NoHealth
    /\ cyc' = Idle
    /\ UNCHANGED <<sync, aggVars, decVars, coreFitted, lastForecast>>

NextHealth == NewData \/ CheckHealthCall

NextDecide == NewStrategy \/ GetSignalCall \/ GetTradingSignalCall

Next ==
    \/ NewData
    \/ NewCore
    \/ ProcessCycle
    \/ ExecuteTradingCycle
    \/ IntegrateDatahawk
    \/ IntegratePredictionToHawk

Init == AggInit /\ HealthInit /\ SigInit /\ CycInit /\ SyncInit

SpecAgg == Init /\ [][NextAgg]_vars

SpecHealth == Init /\ [][NextHealth]_vars

SpecDecide == Init /\ [][NextDecide]_vars

Spec == Init /\ [][Next]_vars

SpecPipe == Init /\ [][NextPipe]_vars

SpecCancel == Init /\ [][NextCancel]_vars

SpecLive == Init /\ [][NextLive]_vars /\ Fairness

SpecSync == Init /\ [][NextSync]_vars

\* ------------------------------------------------------------------ claims

\* C1: every cycle entry point returns a Signal or a failure marker and lets
\* no exception escape, whatever the frame and whatever the model does.
C1_NoEscape ==
    cyc.op # "idle" =>
        /\ ~cyc.raised
        /\ cyc.ret \in {"None", "dict", "error", "signal", "forecast"}

\* C2: the model is never fitted on a frame that is empty or has a missing
\* value; the validating entry points end such a cycle without forecasting.
C2_Gate ==
    (cyc.op \in {"process_cycle", "integrate_datahawk"} /\ ~cyc.raised
        /\ (IsEmpty(data) \/ HasNans(data))) =>
        /\ ~cyc.fitCalled
        /\ cyc.stage = "Failed"

Succeeded(i) == net[i].kind = "ok" /\ net[i].rows # <<>>

SourceSeries(i) ==
    FrameEntry(IF schema = "column" THEN ColumnFrame(net[i].rows) ELSE Parse(net[i].rows))

RECURSIVE SuccessfulFrom(_)
SuccessfulFrom(i) ==
    IF i > NSources THEN <<>>
    ELSE (IF Succeeded(i) THEN <<SourceSeries(i)>> ELSE <<>>) \o SuccessfulFrom(i + 1)

\* C5: whichever sources fail, collect_all returns without raising, what it
\* returns is the merge of exactly the series of the sources that succeeded
\* (nothing of a failed request's payload), and it is empty when none did.
C5_PartialFailure ==
    aggPc = "returned" =>
        /\ ~aggRaised
        /\ merged = MergeAndClean(SuccessfulFrom(1), schema)
        /\ \A k \in 1..Len(merged) :
            /\ merged[k].val # Poison
            /\ \E i \in 1..NSources : Succeeded(i) /\
                    \E j \in 1..Len(net[i].rows) : net[i].rows[j].ts = merged[k].ts
        /\ (\A i \in 1..NSources : ~Succeeded(i)) => merged = <<>>

C5_Witness ==
    /\ aggPc = "returned"
    /\ \E i \in 1..NSources : net[i].kind \in {"raise", "timeout", "badstatus", "malformed"}
    /\ \E i \in 1..NSources : Succeeded(i)
    /\ merged # <<>>

\* C6: the series collect_all returns has strictly ascending (so unique)
\* timestamps, also when two sources report the same timestamp.
C6_UniqueAscending ==
    aggPc = "returned" =>
        \A i \in 1..(Len(merged) - 1) : merged[i].ts < merged[i + 1].ts

\* the configured max_fill_gap; the code has no such option
MaxFillGap == 1

\* the number of consecutive undefined values ending at row i
RECURSIVE NaNRun(_, _)
NaNRun(s, i) == IF i = 0 \/ s[i].val # NaN THEN 0 ELSE 1 + NaNRun(s, i - 1)

\* C7: a value is carried forward only while the run of undefined values is
\* at most max_fill_gap, and no undefined value is returned.
C7_BoundedFill ==
    aggPc = "returned" =>
        /\ \A i \in 1..Len(combined) :
            (combined[i].val = NaN /\ filled[i].val # NaN) =>
                NaNRun(combined, i) <= MaxFillGap
        /\ \A i \in 1..Len(merged) : merged[i].val # NaN

\* C8: staleness is true iff the frame is empty or now - last_timestamp
\* exceeds 300 seconds, whatever the age.
C8_Stale ==
    (health.called /\ ~health.out.raised) =>
        (health.out.staleness <=> (IsEmpty(data) \/ health.age > StaleThreshold))


\* C9: when the model succeeds, the forecaster returns exactly horizon points,
\* all strictly after the last historical timestamp, in ascending order.
C9_ExactHorizon ==
    (cyc.op \in {"integrate_datahawk", "integrate_prediction_to_hawk"}
        /\ cyc.fitCalled /\ ~cyc.modelFailed) =>
        /\ Len(cyc.fc) = cyc.horizon
        /\ \A i \in 1..Len(cyc.fc) : cyc.fc[i].ds > cyc.histLast
        /\ \A i \in 1..(Len(cyc.fc) - 1) : cyc.fc[i].ds < cyc.fc[i + 1].ds

\* C10: a process_cycle call on valid data with a working model ends as it
\* would on a freshly constructed DataHawkCore, whatever cycles ran before.
C10_CycleIndependent ==
    (cyc.op = "process_cycle" /\ IsDataValid(data) /\ cyc.outcome.kind = "ok") =>
        LET fresh == ProcessCycleOp(FALSE, data, cyc.outcome).cyc
        IN  /\ cyc.ret = fresh.ret
            /\ cyc.stage = fresh.stage
            /\ cyc.out = fresh.out

\* C11: when every source fails, collect_all returns an empty series and the
\* cycle run on it ends, without raising, with a failure marker whose reason is
\* no-sources (not invalid-data, not forecast-unavailable).
C11_NoSources ==
    (aggPc = "returned" /\ cyc.op = "process_cycle"
        /\ \A i \in 1..NSources : net[i].kind # "ok") =>
        /\ merged = <<>>
        /\ ~aggRaised
        /\ ~cyc.raised
        /\ cyc.stage = "Failed"
        /\ cyc.reason = "no-sources"

\* C12: the signal decision never fails: for every current price (0 included),
\* every forecast and every thresholds, get_signal and get_trading_signal
\* return a signal and raise nothing.
C12_DecideNeverFails ==
    sig.op # "none" => sig.out.kind \in {"signal", "hold0", "text"}

\* C13: on an empty forecast get_signal returns action HOLD with confidence 0
\* and raises nothing, for every current price and every thresholds.
C13_EmptyForecastHold ==
    (sig.op = "get_signal" /\ sig.forecast = <<>>) =>
        /\ sig.out.kind = "hold0"
        /\ sig.out.action = "HOLD"
        /\ sig.out.confidence = 0

C13_Witness ==
    /\ sig.op = "get_signal"
    /\ sig.forecast = <<>>
    /\ sig.cur = 0
    /\ sig.buy = 30 /\ sig.sell = 0
    /\ sig.out.action = "HOLD"

\* C14: over any sequence of cycles hawk_instance.last_forecast changes only
\* in a step that ends a successful cycle, where it becomes that cycle's whole
\* forecast (horizon rows); a cycle that fails leaves it exactly as it was, so
\* it never holds an empty or a partial forecast.
C14_CacheWholesale ==
    [][/\ lastForecast' # lastForecast =>
            /\ cyc'.op = "integrate_prediction_to_hawk"
            /\ cyc'.stage = "Done"
            /\ lastForecast' = cyc'.fc
            /\ Len(lastForecast') = cyc'.horizon
       /\ cyc'.stage = "Failed" => lastForecast' = lastForecast]_vars

C14_Witness ==
    /\ cyc.op = "integrate_prediction_to_hawk"
    /\ cyc.stage = "Failed"
    /\ Len(lastForecast) = HawkForecastDays
    /\ lastForecast[HawkForecastDays].yhat = 103

\* C15: when collect_all is cancelled while fetches are in flight, every fetch
\* still pending is cancelled and what the finished fetches returned is
\* dropped: nothing is merged, nothing is returned, nothing is stored.
C15_CancelDiscards ==
    aggPc = "cancelled" =>
        /\ \A i \in 1..NSources : results[i] # Pending
        /\ \A i \in 1..NSources : net[i] = Pending => results[i] = CancelledEntry
        /\ aggRaised
        /\ merged = <<>>
        /\ combined = <<>>
        /\ filled = <<>>

C15_Witness ==
    /\ aggPc = "cancelled"
    /\ \E i \in 1..NSources : results[i].kind = "frame" /\ results[i].rows # <<>>
    /\ \E i \in 1..NSources : results[i] = CancelledEntry
    /\ merged = <<>>

\* C16: the fetch stage never blocks for ever: whatever the sources do, a
\* source that never answers included, every fetch ends and collect_all
\* eventually returns.
C16_FetchReturns == (aggPc = "gathering") ~> (aggPc = "returned")

\* the frame offers no timestamp-capable field (no 'timestamp' column, no
\* datetime index) and no value field (no 'price' or 'close' column)
Unresolved(df) == ~df.tsCol /\ ~df.dtIndex /\ df.valCol \notin {"price", "close"}

\* C17: when neither a timestamp-capable field nor a value field can be
\* resolved from a non-empty frame, the forecaster fails: it takes no positional column
\* in their place, the model is not fitted, and no forecast or signal comes out.
C17_UnresolvedFails ==
    (cyc.op # "idle" /\ ~IsEmpty(data) /\ Unresolved(data)) =>
        /\ ~cyc.fitCalled
        /\ cyc.fc = <<>>
        /\ ~cyc.decided

\* C18: sync_data_hawk always returns a dictionary: whatever the request does
\* and whatever JSON document a successful response carries, nothing is raised
\* and the return value is a dict, the empty dict when the request failed.
C18_AlwaysDict ==
    sync.called =>
        /\ ~sync.raised
        /\ sync.ret.t = "object"
        /\ sync.http.kind # "ok" => sync.ret = EmptyDict

\* C19: the merged series does not depend on the order in which the fetches
\* complete: whichever fetch finishes first, collect_all returns the series
\* determined by the sources' outputs taken in the order of the source list,
\* and that series is in ascending timestamp order.
C19_OrderIndependent ==
    aggPc = "returned" =>
        /\ merged = MergeAndClean(SuccessfulFrom(1), schema)
        /\ \A i \in 1..(Len(merged) - 1) : merged[i].ts <= merged[i + 1].ts

\* C20: the forecaster takes the timestamp from the 'timestamp' column, else
\* from the datetime index, else from the first column, and the value from the
\* 'price' or 'close' column, else from the second column: with both a
\* 'timestamp' column and a datetime index the history ends at the column's
\* last value, and a frame with a timestamp field and a 'price' or 'close'
\* column is accepted.
C20_DetectionOrder ==
    (cyc.op \in {"process_cycle", "execute_trading_cycle", "integrate_prediction_to_hawk"}
        /\ ~cyc.raised /\ data.rows # <<>> /\ ~HasNans(data)) =>
        /\ (cyc.fitCalled /\ data.tsCol /\ data.dtIndex) =>
                cyc.histLast = data.rows[Len(data.rows)].ts
        /\ (cyc.op # "process_cycle" /\ (data.tsCol \/ data.dtIndex)
                /\ data.valCol \in {"price", "close"}) =>
                cyc.fitCalled

\* (predicted - current) / current * 100 rounded to 8 decimals: h hundredths
\* of a percent and m units of 10^-8 percent on top of them
PctTo8(pred, cur) ==
    LET n == (pred - cur) * 10000
        h == n \div cur
        m == RoundHalfEven((n - h * cur) * 1000000, cur)
    IN  IF m = 1000000 THEN [h |-> h + 1, m |-> 0] ELSE [h |-> h, m |-> m]

\* C21: every number get_signal returns (current_price, predicted_price,
\* expected_change_pct and both confidence bounds) is its value rounded to 8
\* decimal places.
C21_EightDecimals ==
    (sig.op = "get_signal" /\ sig.out.kind = "signal" /\ sig.cur # 0) =>
        LET last == sig.forecast[Len(sig.forecast)]
        IN  /\ sig.out.current_price = sig.cur
            /\ sig.out.predicted_price = last.yhat
            /\ sig.out.range = [lower |-> last.yhat_lower, upper |-> last.yhat_upper]
            /\ sig.out.expected_change_pct.kind = "num"
            /\ [h |-> sig.out.expected_change_pct.v, m |-> 0] = PctTo8(last.yhat, sig.cur)

\* C22: a collect_all call issues exactly one fetch per source; nothing is
\* merged or returned while a fetch of the call is pending; it returns only
\* when every fetch has completed, and a non-empty result is the merge of all
\* the fetches that succeeded, never of a part of them.
C22_OneFetchThenMerge ==
    /\ aggPc \in {"gathering", "returned"} =>
        /\ Len(tasks) = NSources
        /\ \A i \in 1..NSources : Cardinality({k \in 1..Len(tasks) : tasks[k] = i}) = 1
    /\ aggPc = "gathering" => (merged = <<>> /\ combined = <<>> /\ filled = <<>>)
    /\ aggPc = "returned" =>
        /\ \A i \in 1..NSources : results[i] # Pending /\ net[i] # Pending
        /\ merged # <<>> => merged = MergeAndClean(SuccessfulFrom(1), schema)

C22_Witness ==
    /\ aggPc = "returned"
    /\ \A i \in 1..NSources : Succeeded(i)
    /\ net[1].rows # net[2].rows
    /\ Len(merged) >= 2

====
